---- MODULE Spec2Model ----
(***************************************************************************)
(* Model of src/rust/src/calepinage.rs: the plank/deck value types, the    *)
(* plank heap, Line::compute_junction, the row selector                    *)
(* (select_planks_for_line) and the layout builder (calepine).             *)
(*                                                                         *)
(* A Plank is modelled by its length, an Option<Plank> by a sequence of at *)
(* most one length, a Result by a record with an "ok" field or by the name *)
(* of the CalepinageError variant.                                         *)
(***************************************************************************)
EXTENDS Integers, Sequences, FiniteSets, TLC

(* ------------------------------ bounds -------------------------------- *)

MaxPlanks == 6
MaxWidth == 3
MaxLineLen == 4
PlankLengths == {1, 2, 3, 10}
DeckLengths == {3, 5, 12, 13}
LineLengths == {0, 1, 2, 3}
PlankArgs == (0 .. 40) \cup (9980 .. 10020)
DeckLengthArgs == {0, 1, 2, 999999, 1000000, 1000001, 1000002}
DeckWidthArgs == 0 .. 5

(* --------------------------- program constants ------------------------ *)

Deck_MAX_LENGTH == 1000000
Plank_MAX_LENGTH == 10000

(* ------------------------------ helpers ------------------------------- *)

RECURSIVE SeqSum(_)
SeqSum(s) == IF s = <<>> THEN 0 ELSE Head(s) + SeqSum(Tail(s))

SeqsUpTo(S, n) == UNION {[1 .. k -> S] : k \in 0 .. n}

None == <<>>
Some(p) == <<p>>

(* ------------------------- Deck::new, Plank::new ---------------------- *)

Deck_new(length, width) ==
    IF length = 0 \/ width = 0
    THEN [ok |-> FALSE, err |-> "a deck can't have any zero dimension"]
    ELSE IF length > Deck_MAX_LENGTH
         THEN [ok |-> FALSE, err |-> "max length of deck is"]
         ELSE [ok |-> TRUE, length |-> length, width |-> width]

Plank_new(length) ==
    IF length > Plank_MAX_LENGTH
    THEN [ok |-> FALSE, err |-> "max length of plank is"]
    ELSE [ok |-> TRUE, length |-> length]

(* ------------------------------ PlankHeap ----------------------------- *)

PlankHeap_new == [planks |-> <<>>, total_length |-> 0]

add(self, count, length) ==
    [planks       |-> self.planks \o [k \in 1 .. count |-> length],
     total_length |-> self.total_length + count * length]

RECURSIVE from_planks_fold(_, _)
from_planks_fold(heap, planks) ==
    IF planks = <<>> THEN heap
    ELSE from_planks_fold(add(heap, 1, Head(planks)), Tail(planks))

from_planks(planks) == from_planks_fold(PlankHeap_new, planks)

(* stable insertion of x into a sequence sorted by decreasing length *)
RECURSIVE insert_decreasing(_, _)
insert_decreasing(sorted, x) ==
    IF sorted = <<>> THEN <<x>>
    ELSE IF Head(sorted) >= x
         THEN <<Head(sorted)>> \o insert_decreasing(Tail(sorted), x)
         ELSE <<x>> \o sorted

RECURSIVE sort_by_decreasing_length(_)
sort_by_decreasing_length(planks) ==
    IF planks = <<>> THEN <<>>
    ELSE insert_decreasing(
             sort_by_decreasing_length(SubSeq(planks, 1, Len(planks) - 1)),
             planks[Len(planks)])

(* -------------------------------- Line -------------------------------- *)

with_plank(self, new_plank_to_add) == Append(self, new_plank_to_add)

(* scan(0, |acc, plank| acc + plank.length) : the running sums *)
RECURSIVE scan(_, _)
scan(acc, planks) ==
    IF planks = <<>> THEN <<>>
    ELSE <<acc + Head(planks)>> \o scan(acc + Head(planks), Tail(planks))

take(s, n) == SubSeq(s, 1, IF n < Len(s) THEN n ELSE Len(s))

(* compute_junction without the `- 1` of take *)
compute_junction_taking_every_sum(self) ==
    IF Len(self) > 1
    THEN take(scan(0, self), Len(self))
    ELSE <<>>

compute_junction(self) ==
    IF Len(self) > 1
    THEN take(scan(0, self), Len(self) - 1)
    ELSE <<>>

(* ----------------------------- Calepinage ----------------------------- *)

with_line(self, new_line_to_add) == Append(self, new_line_to_add)

(* ----------------------------- CalepineStep --------------------------- *)

CalepineStep_default ==
    [remaining |-> PlankHeap_new, selected |-> PlankHeap_new, stash |-> None]

(* the diagnostic keeps the plank lengths and the stash, not the totals *)
to_string(step) ==
    [remaining |-> step.remaining.planks,
     selected  |-> step.selected.planks,
     stash     |-> step.stash]

NoDiagnostic == [remaining |-> <<>>, selected |-> <<>>, stash |-> None]

(* ----------------------------- row selector --------------------------- *)

(* the closure of select_planks_for_line; it captures deck_length and     *)
(* previous_line_junctions                                                 *)
(* the closure without the test on previous_line_junctions *)
select_planks_ignoring_junctions(step, plank, deck_length, previous_line_junctions) ==
    LET new_length == step.selected.total_length + plank
    IN IF new_length > deck_length
       THEN [step EXCEPT !.remaining = add(step.remaining, 1, plank)]
       ELSE [step EXCEPT !.selected = add(step.selected, 1, plank)]

(* the closure comparing the total before the plank is added *)
select_planks_testing_old_length(step, plank, deck_length, previous_line_junctions) ==
    LET new_length == step.selected.total_length + plank
        junction == new_length
    IN IF step.selected.total_length > deck_length
       THEN [step EXCEPT !.remaining = add(step.remaining, 1, plank)]
       ELSE IF junction \in previous_line_junctions
            THEN [step EXCEPT !.stash = Some(plank)]
            ELSE [step EXCEPT !.selected = add(step.selected, 1, plank)]

select_planks_fitting_length_goal(step, plank, deck_length, previous_line_junctions) ==
    LET new_length == step.selected.total_length + plank
        junction == new_length
    IN IF new_length > deck_length
       THEN [step EXCEPT !.remaining = add(step.remaining, 1, plank)]
       ELSE IF junction \in previous_line_junctions
            THEN [step EXCEPT !.stash = Some(plank)]
            ELSE [step EXCEPT !.selected = add(step.selected, 1, plank)]

(* the slice pattern [Plank{10}, Plank{10}, Plank{2}, Plank{2}] *)
matches_10_10_2_2(planks) == planks = <<10, 10, 2, 2>>

(* the arm taken when the pattern matches *)
hard_coded_selection(planks, previous_line_junctions) ==
    LET new_length == CalepineStep_default.selected.total_length + planks[1]
        junction == new_length
    IN IF junction \in previous_line_junctions
       THEN [remaining |-> add(add(PlankHeap_new, 1, planks[4]), 1, planks[2]),
             selected  |-> add(add(PlankHeap_new, 1, planks[3]), 1, planks[1]),
             stash     |-> None]
       ELSE [remaining |-> add(add(PlankHeap_new, 1, planks[2]), 1, planks[4]),
             selected  |-> add(add(PlankHeap_new, 1, planks[1]), 1, planks[3]),
             stash     |-> None]

(* the match on step.stash after the pass *)
retry_stash(step, deck_length, previous_line_junctions) ==
    IF step.stash # None
    THEN select_planks_fitting_length_goal([step EXCEPT !.stash = None],
                                           step.stash[1], deck_length,
                                           previous_line_junctions)
    ELSE step

assert_length_goal_fulfilled(step, deck_length) ==
    IF step.selected.total_length < deck_length
    THEN IF step.remaining.total_length = 0
         THEN "NotEnoughPlanks"
         ELSE "OnlyUnusablePlanksRemaining"
    ELSE "Ok"

(* calepinage.0.last().map_or_else(HashSet::new, compute_junction) *)
previous_line_junctions_of(calepinage_lines) ==
    IF calepinage_lines = <<>> THEN {}
    ELSE LET js == compute_junction(calepinage_lines[Len(calepinage_lines)])
         IN {js[k] : k \in DOMAIN js}

(* the range 0..deck.width still has an item *)
(* the inclusive range 0..=deck.width *)
in_range_inclusive(row_index, width) == row_index <= width

in_range(row_index, width) == row_index < width

(* ------------------------------- state -------------------------------- *)

VARIABLES
    pc,              \* position in calepine / select_planks_for_line
    plank_heap,      \* argument of calepine
    deck,            \* argument of calepine
    the_plank_heap,  \* working heap
    calepinage,      \* lines of the layout built so far
    row,             \* iterations of `for _ in 0..deck.width` started
    step,            \* CalepineStep of the row being selected
    i,               \* position of the pass in the_plank_heap.planks
    retried,         \* the plank taken out of the stash for the retry
    result,          \* "running", "Ok" or the CalepinageError variant
    error,           \* payload of OnlyUnusablePlanksRemaining
    line,            \* a Line built with with_plank
    junctions,       \* result of line.compute_junction()
    call             \* a constructor call and its result

vars == <<pc, plank_heap, deck, the_plank_heap, calepinage, row, step, i,
          retried, result, error, line, junctions, call>>

layout_vars == <<plank_heap, deck, the_plank_heap, calepinage, row, step, i,
                 retried, result, error>>

NoCall == [fn |-> "none", length |-> 0, width |-> 0, result |-> [ok |-> FALSE, err |-> ""]]

prev_junctions == previous_line_junctions_of(calepinage)

(* ------------------------------ calepine ------------------------------ *)

Init ==
    /\ pc = "calepine"
    /\ plank_heap \in {from_planks(s) : s \in SeqsUpTo(PlankLengths, MaxPlanks)}
    /\ deck \in [length : DeckLengths, width : 1 .. MaxWidth]
    /\ the_plank_heap = PlankHeap_new
    /\ calepinage = <<>>
    /\ row = 0
    /\ step = CalepineStep_default
    /\ i = 1
    /\ retried = None
    /\ result = "running"
    /\ error = NoDiagnostic
    /\ line = <<>>
    /\ junctions = <<>>
    /\ call = NoCall

(* lines 244-248 *)
SortHeap ==
    /\ pc = "calepine"
    /\ the_plank_heap' =
           [from_planks(plank_heap.planks) EXCEPT
               !.planks = sort_by_decreasing_length(@)]
    /\ calepinage' = <<>>
    /\ pc' = "row"
    /\ UNCHANGED <<plank_heap, deck, row, step, i, retried, result, error,
                   line, junctions, call>>

(* the loop head finds a next row; the heap matches the pattern *)
SelectHardCoded ==
    /\ pc = "row"
    /\ in_range(row, deck.width)
    /\ matches_10_10_2_2(the_plank_heap.planks)
    /\ row' = row + 1
    /\ step' = hard_coded_selection(the_plank_heap.planks, prev_junctions)
    /\ retried' = None
    /\ pc' = "selected"
    /\ UNCHANGED <<plank_heap, deck, the_plank_heap, calepinage, i, result,
                   error, line, junctions, call>>

(* the loop head finds a next row; the general pass starts *)
StartPass ==
    /\ pc = "row"
    /\ in_range(row, deck.width)
    /\ ~ matches_10_10_2_2(the_plank_heap.planks)
    /\ row' = row + 1
    /\ step' = CalepineStep_default
    /\ i' = 1
    /\ retried' = None
    /\ pc' = "pass"
    /\ UNCHANGED <<plank_heap, deck, the_plank_heap, calepinage, result,
                   error, line, junctions, call>>

(* one iteration of `for plank in the_plank_heap.planks.iter()` *)
PassPlank ==
    /\ pc = "pass"
    /\ i <= Len(the_plank_heap.planks)
    /\ step' = select_planks_fitting_length_goal(step, the_plank_heap.planks[i],
                                                 deck.length, prev_junctions)
    /\ i' = i + 1
    /\ UNCHANGED <<pc, plank_heap, deck, the_plank_heap, calepinage, row,
                   retried, result, error, line, junctions, call>>

(* lines 346-349 *)
RetryStash ==
    /\ pc = "pass"
    /\ i > Len(the_plank_heap.planks)
    /\ retried' = step.stash
    /\ step' = retry_stash(step, deck.length, prev_junctions)
    /\ pc' = "assert"
    /\ UNCHANGED <<plank_heap, deck, the_plank_heap, calepinage, row, i,
                   result, error, line, junctions, call>>

(* line 351 and the `?` of line 255 *)
AssertLengthGoal ==
    /\ pc = "assert"
    /\ LET r == assert_length_goal_fulfilled(step, deck.length)
       IN IF r = "Ok"
          THEN /\ pc' = "selected"
               /\ UNCHANGED <<result, error>>
          ELSE /\ pc' = "done"
               /\ result' = r
               /\ error' = IF r = "OnlyUnusablePlanksRemaining"
                           THEN to_string(step) ELSE NoDiagnostic
    /\ UNCHANGED <<plank_heap, deck, the_plank_heap, calepinage, row, step, i,
                   retried, line, junctions, call>>

(* lines 256-257 *)
AppendLine ==
    /\ pc = "selected"
    /\ the_plank_heap' = step.remaining
    /\ calepinage' = with_line(calepinage, step.selected.planks)
    /\ pc' = "row"
    /\ UNCHANGED <<plank_heap, deck, row, step, i, retried, result, error,
                   line, junctions, call>>

(* the range is exhausted: Ok(calepinage) *)
ReturnOk ==
    /\ pc = "row"
    /\ ~ in_range(row, deck.width)
    /\ result' = "Ok"
    /\ pc' = "done"
    /\ UNCHANGED <<plank_heap, deck, the_plank_heap, calepinage, row, step, i,
                   retried, error, line, junctions, call>>

Next ==
    \/ SortHeap
    \/ SelectHardCoded
    \/ StartPass
    \/ PassPlank
    \/ RetryStash
    \/ AssertLengthGoal
    \/ AppendLine
    \/ ReturnOk

Spec == Init /\ [][Next]_vars

(* ------------------- Line::with_plank / compute_junction -------------- *)

InitLine ==
    /\ pc = "line"
    /\ line = <<>>
    /\ junctions = <<>>
    /\ plank_heap = PlankHeap_new
    /\ deck = [length |-> 1, width |-> 1]
    /\ the_plank_heap = PlankHeap_new
    /\ calepinage = <<>>
    /\ row = 0
    /\ step = CalepineStep_default
    /\ i = 1
    /\ retried = None
    /\ result = "running"
    /\ error = NoDiagnostic
    /\ call = NoCall

WithPlank ==
    /\ pc = "line"
    /\ Len(line) < MaxLineLen
    /\ \E p \in LineLengths : line' = with_plank(line, p)
    /\ UNCHANGED <<pc, junctions, call>>
    /\ UNCHANGED layout_vars

ComputeJunction ==
    /\ pc = "line"
    /\ junctions' = compute_junction(line)
    /\ pc' = "junctions"
    /\ UNCHANGED <<line, call>>
    /\ UNCHANGED layout_vars

NextLine == WithPlank \/ ComputeJunction

SpecLine == InitLine /\ [][NextLine]_vars

(* ------------------------ Plank::new / Deck::new ---------------------- *)

InitNew ==
    /\ pc = "new"
    /\ call = NoCall
    /\ line = <<>>
    /\ junctions = <<>>
    /\ plank_heap = PlankHeap_new
    /\ deck = [length |-> 1, width |-> 1]
    /\ the_plank_heap = PlankHeap_new
    /\ calepinage = <<>>
    /\ row = 0
    /\ step = CalepineStep_default
    /\ i = 1
    /\ retried = None
    /\ result = "running"
    /\ error = NoDiagnostic

PlankNew ==
    /\ pc = "new"
    /\ \E length \in PlankArgs :
           call' = [fn |-> "Plank::new", length |-> length, width |-> 0,
                    result |-> Plank_new(length)]
    /\ UNCHANGED <<pc, line, junctions>>
    /\ UNCHANGED layout_vars

DeckNew ==
    /\ pc = "new"
    /\ \E length \in DeckLengthArgs, width \in DeckWidthArgs :
           call' = [fn |-> "Deck::new", length |-> length, width |-> width,
                    result |-> Deck_new(length, width)]
    /\ UNCHANGED <<pc, line, junctions>>
    /\ UNCHANGED layout_vars

NextNew == PlankNew \/ DeckNew

SpecNew == InitNew /\ [][NextNew]_vars

(* ============================== properties ============================ *)

Errors == {"NotEnoughPlanks", "OnlyUnusablePlanksRemaining"}

(* number of planks of length l in a sequence of planks *)
Count(planks, l) == Cardinality({k \in DOMAIN planks : planks[k] = l})

SameMultiset(s, t) ==
    \A l \in {s[k] : k \in DOMAIN s} \cup {t[k] : k \in DOMAIN t} :
        Count(s, l) = Count(t, l)

(* sum of the first k planks of a line *)
PrefixSum(planks, k) == SeqSum(SubSeq(planks, 1, k))

JunctionOffsets(planks) == {PrefixSum(planks, k) : k \in 1 .. Len(planks) - 1}

IsNonIncreasing(planks) ==
    \A k \in 1 .. Len(planks) - 1 : planks[k] >= planks[k + 1]

GeneralRow == ~ matches_10_10_2_2(the_plank_heap.planks)

(* C1: when calepine returns Ok(layout), every line of the layout has a    *)
(* sum of plank lengths greater than or equal to deck.length.              *)
C1_EveryLineReachesDeckLength ==
    result = "Ok" =>
        \A k \in DOMAIN calepinage : SeqSum(calepinage[k]) >= deck.length

(* C2: when calepine returns Ok(layout), the junction offsets of every     *)
(* line are disjoint from the junction offsets of the line before it.      *)
C2_NoSharedJunction ==
    result = "Ok" =>
        \A k \in 1 .. Len(calepinage) - 1 :
            JunctionOffsets(calepinage[k]) \cap JunctionOffsets(calepinage[k + 1]) = {}

C2_Witness ==
    /\ result = "Ok"
    /\ \E k \in 1 .. Len(calepinage) - 1 :
           /\ JunctionOffsets(calepinage[k]) # {}
           /\ JunctionOffsets(calepinage[k + 1]) # {}
           /\ calepinage[k + 1] # calepinage[k]

(* C3: calepine ends either with Ok and exactly deck.width lines, or with  *)
(* an error raised by the first row whose selection fails; lines are only  *)
(* ever appended at the end, one per selected row.                         *)
C3_State ==
    /\ result \in {"running", "Ok"} \cup Errors
    /\ (result = "running") <=> (pc # "done")
    /\ result = "Ok" => Len(calepinage) = deck.width
    /\ result \in Errors =>
           /\ Len(calepinage) = row - 1
           /\ Len(calepinage) < deck.width
    /\ Len(calepinage) <= deck.width

C3_OkHasWidthLinesElseError ==
    /\ []C3_State
    /\ [][/\ result \in Errors => UNCHANGED vars
          /\ calepinage' # calepinage =>
                 /\ Len(calepinage') = Len(calepinage) + 1
                 /\ SubSeq(calepinage', 1, Len(calepinage)) = calepinage
                 /\ calepinage'[Len(calepinage')] = step.selected.planks]_vars

C3_Witness ==
    /\ result = "Ok"
    /\ deck.width >= 2
    /\ Len(calepinage) = deck.width

(* C4: during the selection of a row, selected, remaining and stash hold   *)
(* exactly the planks of the row's heap processed so far, each once.       *)
C4_StepPartitionsProcessedPlanks ==
    LET held == step.selected.planks \o step.remaining.planks \o step.stash
    IN /\ (pc = "pass" /\ GeneralRow) =>
              SameMultiset(held, SubSeq(the_plank_heap.planks, 1, i - 1))
       /\ pc \in {"assert", "selected"} =>
              SameMultiset(held, the_plank_heap.planks)

(* C5: a short row fails with NotEnoughPlanks exactly when every plank of  *)
(* the row's heap is in the selection, and with                            *)
(* OnlyUnusablePlanksRemaining carrying the step otherwise.                *)
C5_NotEnoughPlanksIffNothingLeft ==
    result \in Errors =>
        /\ (result = "NotEnoughPlanks") <=>
               SameMultiset(step.selected.planks, the_plank_heap.planks)
        /\ result = "OnlyUnusablePlanksRemaining" => error = to_string(step)

(* C6: compute_junction returns max(n-1, 0) junctions, the k-th being the  *)
(* sum of the first k planks of the line.                                  *)
C6_JunctionsArePrefixSums ==
    pc = "junctions" =>
        /\ Len(junctions) = (IF Len(line) >= 1 THEN Len(line) - 1 ELSE 0)
        /\ \A k \in DOMAIN junctions : junctions[k] = PrefixSum(line, k)
        /\ line = <<3, 1>> => junctions = <<3>>

C6_Witness ==
    /\ pc = "junctions"
    /\ Len(line) >= 3
    /\ Len(junctions) = Len(line) - 1
    /\ junctions[1] # junctions[2]

(* C7: Plank::new(l) is Ok exactly when 1 <= l <= 10000 and Deck::new(l,w) *)
(* is Ok exactly when 1 <= l <= 1000000 and w >= 1.                        *)
C7_ConstructionBounds ==
    /\ call.fn = "Plank::new" =>
           (call.result.ok <=> (1 <= call.length /\ call.length <= 10000))
    /\ call.fn = "Deck::new" =>
           (call.result.ok <=>
               (1 <= call.length /\ call.length <= 1000000 /\ call.width >= 1))

(* C8: after the retry of a stashed plank the stash is empty and the plank *)
(* is the last plank of selected or the last plank of remaining.           *)
C8_RetryEmptiesStash ==
    (pc = "assert" /\ retried # None) =>
        /\ step.stash = None
        /\ \/ /\ step.selected.planks # <<>>
              /\ step.selected.planks[Len(step.selected.planks)] = retried[1]
           \/ /\ step.remaining.planks # <<>>
              /\ step.remaining.planks[Len(step.remaining.planks)] = retried[1]

(* C9: at the start of every row the planks of the working heap are in     *)
(* non-increasing length order.                                            *)
C9_HeapSortedAtRowStart ==
    (pc = "row" /\ in_range(row, deck.width)) =>
        IsNonIncreasing(the_plank_heap.planks)

(* C10: in a row selected by the general algorithm the selected total      *)
(* never exceeds deck.length, a selected row has a total equal to          *)
(* deck.length, and a failed row has a smaller total.                      *)
C10_GeneralRowNeverOvershoots ==
    /\ (pc \in {"pass", "assert", "selected"} /\ GeneralRow) =>
           /\ SeqSum(step.selected.planks) <= deck.length
           /\ step.selected.total_length = SeqSum(step.selected.planks)
           /\ pc = "selected" => SeqSum(step.selected.planks) = deck.length
    /\ result \in Errors => SeqSum(step.selected.planks) < deck.length

C10_Witness ==
    /\ pc = "selected"
    /\ GeneralRow
    /\ retried # None
    /\ Len(step.selected.planks) >= 2
    /\ step.remaining.planks # <<>>

====
